---- MODULE Spec2Model ----
(***************************************************************************)
(* Weather API (src/Weather API/wapp.py): a Flask route /weather that      *)
(* validates the "city" query parameter, then runs the cache-aside lookup  *)
(* fetch_weather(city, country) against a Redis cache (GET / SETEX with a  *)
(* TTL of cache_time seconds) and the OpenWeather HTTP API.                *)
(*                                                                         *)
(* Flask serves requests on concurrent threads, so several lookups run     *)
(* interleaved; each Redis command and each HTTP exchange is one step.     *)
(* Strings are sequences of one-character strings.                         *)
(***************************************************************************)
EXTENDS Integers, Sequences, FiniteSets, TLC

\* ------------------------------------------------------------------ bounds
NumReq   == 2    \* concurrent request threads
MaxTime  == 2    \* the clock runs 0..MaxTime (seconds)
MaxLen   == 4    \* longest query string tried against the key derivation

\* CACHE_TIME, the TTL in seconds (wapp.py line 27)
cache_time == 2

Reqs == 1..NumReq

\* ----------------------------------------------------------------- strings
Alphabet == {"a", "A", " ", ","}

\* request.args.get("city") when the parameter is absent
None == <<"<None>">>

\* every query string of length 0..MaxLen over the alphabet, and the absent one
AllInputs == UNION {[1..n -> Alphabet] : n \in 0..MaxLen} \cup {None}

\* the query strings the lookup protocol is driven with: one for each way
\* through weather()'s validation (SpecKey below takes all of AllInputs)
LookupInputs ==
    { None,                       \* parameter missing
      <<"a">>,                    \* no comma
      <<"A", ",", "a">> }         \* A,a

\* str.lower() on one character
LowerChar(c) == IF c = "A" THEN "a" ELSE c

\* str.lower()
Lower(s) == [i \in 1..Len(s) |-> LowerChar(s[i])]

\* str.lstrip() / str.rstrip() / str.strip(): drop whitespace at the ends
RECURSIVE LStrip(_)
LStrip(s) == IF s # << >> /\ Head(s) = " " THEN LStrip(Tail(s)) ELSE s

RECURSIVE RStrip(_)
RStrip(s) ==
    IF s # << >> /\ s[Len(s)] = " " THEN RStrip(SubSeq(s, 1, Len(s) - 1)) ELSE s

\* Strip that only trims the front
StripLeft(s) == LStrip(s)

Strip(s) == RStrip(LStrip(s))

\* info.split(",", 1): cut at the first comma, at most two pieces
SplitOnce(s) ==
    IF \E i \in 1..Len(s) : s[i] = ","
    THEN LET p == CHOOSE i \in 1..Len(s) :
                     s[i] = "," /\ \A j \in 1..(i - 1) : s[j] # ","
         IN  << SubSeq(s, 1, p - 1), SubSeq(s, p + 1, Len(s)) >>
    ELSE << s >>

\* [x.strip().lower() for x in info.split(",", 1)]
Parts(s) == [i \in 1..Len(SplitOnce(s)) |-> Lower(Strip(SplitOnce(s)[i]))]

\* cache_key = f"weather:{city},{country}"
CacheKey(c, k) == <<"weather:">> \o c \o <<",">> \o k

\* ------------------------------------------------------------- JSON values
Num(n) == [type |-> "number", val |-> n]
Str(n) == [type |-> "string", val |-> n]
Null   == [type |-> "null", val |-> 0]

\* the keys of the dict built by fetch_weather, in insertion order
FieldOrder == << "name", "temperature", "feels_like", "humidity",
                 "pressure", "wind", "clouds", "timezone" >>

Fields == {FieldOrder[i] : i \in 1..Len(FieldOrder)}

\* the place in the OpenWeather body each field is read from
PathOf(f) ==
    CASE f = "name"        -> "name"
      [] f = "temperature" -> "main.temp"
      [] f = "feels_like"  -> "main.feels_like"
      [] f = "humidity"    -> "main.humidity"
      [] f = "pressure"    -> "main.pressure"
      [] f = "wind"        -> "wind.speed"
      [] f = "clouds"      -> "clouds.all"
      [] f = "timezone"    -> "timezone"

Paths == {PathOf(f) : f \in Fields}

\* the local variable data before it is assigned
NoData == [f \in {} |-> Null]

VARIABLES
    now,      \* wall clock, seconds
    store,    \* Redis: cache key -> [value, storedAt, ttl]
    pc,       \* where each request thread is
    info,     \* the "city" query parameter of the request
    city,     \* weather(): city
    country,  \* weather(): country
    data,     \* fetch_weather(): data
    asOf,     \* the time at which this thread's upstream request was sent
    status,   \* response.status_code of the answer received, 0 before one
    sent,     \* upstream requests issued by this request
    reads,    \* Redis GETs issued by this request
    writes,   \* Redis SETEXs issued by this request
    resp,     \* what the user is answered
    exc       \* exception that escaped the view, if any

weatherVars == << now, store, pc, info, city, country, data, asOf, status,
                  sent, reads, writes, resp, exc >>

\* ---- todo tasks (src/todo tasks/app.py), Expense Tracker (src/Expense
\* Tracker/app.py): command-line scripts, each run loads its JSON file,
\* performs one command and saves
VARIABLES
    app,         \* which of the two scripts this working directory is used with
    clock,       \* datetime.now() / datetime.today(), in ticks
    task,        \* Tasklist.task of the latest run
    taskFile,    \* tasklist.json
    expense,     \* ExpenseTracker.expense of the latest run
    expenseFile, \* expensetracker.json
    highestId,   \* the highest ID an add command has reported so far
    notFound     \* the latest run printed that no item has the given ID

crudVars == << app, clock, task, taskFile, expense, expenseFile, highestId,
               notFound >>

\* ---- Unit Converter (src/Unit Converter/cuapp.py), /convert_temp
VARIABLES
    tempForm,    \* the submitted form: temp, unit_from, unit_to
    tempCall,    \* what the call of convert_temp did, if it was made
    tempPage     \* do_temp(): error, result, show_result as rendered

tempVars == << tempForm, tempCall, tempPage >>

\* ---- Number Guessing Game (src/Number Guessing Game/number_guess_game.py)
VARIABLES
    gamePc,             \* where main() is: which input() it waits at
    chances,            \* what get_difficulty returned
    computer_num,       \* the secret number of the round
    number_of_guesses,  \* play_round's counter
    human_input,        \* the latest line typed at the guess prompt
    attempts            \* what play_round returned: << >> for None, <<n>>

gameVars == << gamePc, chances, computer_num, number_of_guesses, human_input,
               attempts >>

\* ---- Personal Blog (src/Personal Blog/app.py): the admin routes
VARIABLES
    articles,    \* the *.json files of ARTICLES_DIR: file stem -> content
    blogPc,      \* per request thread: where its view function is
    blogAuth,    \* request.authorization: << >> or <<username, password>>
    blogSlug,    \* the slug the view works on, << >> outside a view
    blogResp     \* the status code of the response, 0 while there is none

blogVars == << articles, blogPc, blogAuth, blogSlug, blogResp >>

vars == << weatherVars, crudVars, tempVars, gameVars, blogVars >>

TypeOK ==
    /\ now \in 0..MaxTime
    /\ pc \in [Reqs -> {"idle", "get", "fetch", "wait", "setex", "done"}]

\* -------------------------------------------------------------- Redis model
\* Live with the expiry instant itself still counted as valid
LiveInclusive(k) ==
    /\ k \in DOMAIN store
    /\ now <= store[k].storedAt + store[k].ttl

\* the key is resident and its expiry time has not been reached
Live(k) ==
    /\ k \in DOMAIN store
    /\ now < store[k].storedAt + store[k].ttl

\* RedisGet that never finds the key (read under a key never written)
RedisGetMiss(k) == << >>

\* client.get(cache_key): the reply is <<string>> for a live key and << >>
\* (Python None) for a missing or expired one
RedisGet(k) == IF Live(k) THEN << store[k].value >> ELSE << >>

\* client.setex(cache_key, cache_time, value): replace the key, expiry restarts
RedisSetex(k, ttl, v) ==
    [x \in DOMAIN store \cup {k} |->
        IF x = k THEN [value |-> v, storedAt |-> now, ttl |-> ttl] ELSE store[x]]

\* Dumps that leaves out the members whose value is None
DumpsNoNull(d) ==
    LET keys == SelectSeq(FieldOrder, LAMBDA f : f \in DOMAIN d /\ d[f] # Null)
    IN  [i \in 1..Len(keys) |-> [key |-> keys[i], val |-> d[keys[i]]]]

\* json.dumps(data): the members of the dict, in insertion order
Dumps(d) ==
    LET keys == SelectSeq(FieldOrder, LAMBDA f : f \in DOMAIN d)
    IN  [i \in 1..Len(keys) |-> [key |-> keys[i], val |-> d[keys[i]]]]

\* json.loads(text): the dict with the members of the text
Loads(t) ==
    [f \in {t[i].key : i \in 1..Len(t)} |->
        t[CHOOSE i \in 1..Len(t) : t[i].key = f].val]

\* ---------------------------------------------------------- provider model
\* a 200 body in which the paths of `present` exist; the fake provider's
\* readings are the time n at which the request reached it
Body(present, n) ==
    [p \in present |-> IF p = "name" THEN Str(1) ELSE Num(n)]

\* the bodies a 200 response may carry: complete, or lacking one path
BodyShapes == {Paths} \cup {Paths \ {p} : p \in Paths}

\* body['main']['temp'] etc. raise KeyError when the path is absent
RaisesKeyError(body) ==
    \E f \in Fields \ {"name"} : PathOf(f) \notin DOMAIN body

\* Extract that leaves out a member whose path is absent
ExtractPresent(body) ==
    [f \in {g \in Fields : PathOf(g) \in DOMAIN body} |-> body[PathOf(f)]]

\* the dict of lines 88-97; body.get('name') gives None when absent
Extract(body) ==
    [f \in Fields |->
        IF f = "name"
        THEN IF "name" \in DOMAIN body THEN body["name"] ELSE Null
        ELSE body[PathOf(f)]]

\* ------------------------------------------------------------------ actions
\* a JSON file: not there, not parseable, or the text of a JSON list
Missing == [kind |-> "missing", text |-> << >>]
Corrupt == [kind |-> "corrupt", text |-> << >>]

\* convert_temp has not been called; no page has been rendered
NoCall == [called |-> FALSE, raised |-> FALSE, result |-> 0]
NoPage == [error |-> "", result |-> 0, show_result |-> FALSE]
NoForm == [temp |-> << >>, unit_from |-> << >>, unit_to |-> << >>]

\* a program that is not run leaves its state as it was installed
WeatherIdle ==
    /\ now = 0
    /\ store = << >>
    /\ pc = [r \in Reqs |-> "idle"]
    /\ info = [r \in Reqs |-> None]
    /\ city = [r \in Reqs |-> << >>]
    /\ country = [r \in Reqs |-> << >>]
    /\ data = [r \in Reqs |-> NoData]
    /\ asOf = [r \in Reqs |-> 0]
    /\ status = [r \in Reqs |-> 0]
    /\ sent = [r \in Reqs |-> 0]
    /\ reads = [r \in Reqs |-> 0]
    /\ writes = [r \in Reqs |-> 0]
    /\ resp = [r \in Reqs |-> "none"]
    /\ exc = [r \in Reqs |-> "none"]

CrudIdle ==
    /\ app = "none"
    /\ clock = 0
    /\ task = << >>
    /\ taskFile = Missing
    /\ expense = << >>
    /\ expenseFile = Missing
    /\ highestId = 0
    /\ notFound = FALSE

TempIdle ==
    /\ tempForm = NoForm
    /\ tempCall = NoCall
    /\ tempPage = NoPage

\* bound: the request threads of the blog's server
NumBlogReq == 2

BlogReqs == 1 .. NumBlogReq

\* the blog serves no request and has no article
BlogIdle ==
    /\ articles = << >>
    /\ blogPc = [r \in BlogReqs |-> "idle"]
    /\ blogAuth = [r \in BlogReqs |-> << >>]
    /\ blogSlug = [r \in BlogReqs |-> << >>]
    /\ blogResp = [r \in BlogReqs |-> 0]

\* the game is not running
GameIdle ==
    /\ gamePc = "off"
    /\ chances = 0
    /\ computer_num = 0
    /\ number_of_guesses = 0
    /\ human_input = << >>
    /\ attempts = << >>

Init ==
    /\ WeatherIdle
    /\ CrudIdle
    /\ TempIdle
    /\ GameIdle
    /\ BlogIdle

\* the view returns: the answer is fixed and the thread is finished
Answer(r, text, e) ==
    /\ pc' = [pc EXCEPT ![r] = "done"]
    /\ resp' = [resp EXCEPT ![r] = text]
    /\ exc' = [exc EXCEPT ![r] = e]

\* weather(), lines 133-142: read and validate the parameter, split it.
\* Threads are interchangeable, so a request is taken by the lowest idle one.
Receive(r, i) ==
    /\ pc[r] = "idle"
    /\ \A q \in Reqs : q < r => pc[q] # "idle"
    /\ info' = [info EXCEPT ![r] = i]
    /\ IF i = None \/ i = << >>
       THEN /\ Answer(r, "Invalid input", "none")
            /\ UNCHANGED << city, country >>
       ELSE IF Len(Parts(i)) # 2
       THEN /\ Answer(r, "Invalid format", "none")
            /\ UNCHANGED << city, country >>
       ELSE /\ city' = [city EXCEPT ![r] = Parts(i)[1]]
            /\ country' = [country EXCEPT ![r] = Parts(i)[2]]
            /\ pc' = [pc EXCEPT ![r] = "get"]
            /\ UNCHANGED << resp, exc >>
    /\ UNCHANGED << now, store, data, asOf, status, sent, reads, writes >>
    /\ UNCHANGED << crudVars, tempVars, gameVars, blogVars >>

\* Hit that also stores the entry again, restarting its expiry
HitRefresh(r, text) ==
    /\ data' = [data EXCEPT ![r] = Loads(text)]
    /\ Answer(r, "weather_info", "none")
    /\ store' = RedisSetex(CacheKey(city[r], country[r]), cache_time, text)

\* fetch_weather(), lines 65-69: the cached string is decoded and returned,
\* and weather() renders it; the cache is not touched
Hit(r, text) ==
    /\ data' = [data EXCEPT ![r] = Loads(text)]
    /\ Answer(r, "weather_info", "none")
    /\ UNCHANGED store

\* fetch_weather(), lines 61-69: look the key up; a hit is a non-empty string
\* (line 65); a Redis failure escapes as an exception
CacheGet(r) ==
    /\ pc[r] = "get"
    /\ reads' = [reads EXCEPT ![r] = @ + 1]
    /\ \E up \in BOOLEAN :
         LET cached_data == RedisGet(CacheKey(city[r], country[r]))
         IN  IF ~up
             THEN /\ Answer(r, "500", "redis.ConnectionError")
                  /\ UNCHANGED << data, store >>
             ELSE IF cached_data # << >> /\ cached_data[1] # << >>
             THEN Hit(r, cached_data[1])
             ELSE /\ pc' = [pc EXCEPT ![r] = "fetch"]
                  /\ UNCHANGED << data, resp, exc, store >>
    /\ UNCHANGED << now, info, city, country, asOf, status, sent, writes >>
    /\ UNCHANGED << crudVars, tempVars, gameVars, blogVars >>

\* SendRequest that first puts an empty placeholder under the key
SendRequestSpeculative(r) ==
    /\ pc[r] = "fetch"
    /\ asOf' = [asOf EXCEPT ![r] = now]
    /\ sent' = [sent EXCEPT ![r] = @ + 1]
    /\ pc' = [pc EXCEPT ![r] = "wait"]
    /\ store' = RedisSetex(CacheKey(city[r], country[r]), cache_time, << >>)
    /\ UNCHANGED << now, info, city, country, data, status,
                    reads, writes, resp, exc >>
    /\ UNCHANGED << crudVars, tempVars, gameVars, blogVars >>

\* fetch_weather(), line 79: the HTTP request leaves for the provider
SendRequest(r) ==
    /\ pc[r] = "fetch"
    /\ asOf' = [asOf EXCEPT ![r] = now]
    /\ sent' = [sent EXCEPT ![r] = @ + 1]
    /\ pc' = [pc EXCEPT ![r] = "wait"]
    /\ UNCHANGED << now, store, info, city, country, data, status,
                    reads, writes, resp, exc >>
    /\ UNCHANGED << crudVars, tempVars, gameVars, blogVars >>

\* ApiError that remembers the failure in the cache
ApiErrorCached(r, code) ==
    /\ Answer(r, "Could not fetch weather", "none")
    /\ status' = [status EXCEPT ![r] = code]
    /\ store' = RedisSetex(CacheKey(city[r], country[r]), cache_time, Dumps(NoData))
    /\ UNCHANGED data

\* ApiError that sends the request again after any non-200 status
ApiErrorRetry(r, code) ==
    /\ pc' = [pc EXCEPT ![r] = "fetch"]
    /\ status' = [status EXCEPT ![r] = code]
    /\ UNCHANGED << data, store, resp, exc >>

\* fetch_weather(), lines 82-84: a non-200 status; None is returned and
\* weather() answers with its error text; nothing is cached
ApiError(r, code) ==
    /\ Answer(r, "Could not fetch weather", "none")
    /\ status' = [status EXCEPT ![r] = code]
    /\ UNCHANGED << data, store >>

\* fetch_weather(), lines 79-97: the exchange ends with a transport failure,
\* a non-200 status, or a 200 body from which the dict is extracted
ReceiveResponse(r) ==
    /\ pc[r] = "wait"
    /\ \/ /\ Answer(r, "500", "requests.ConnectionError")
          /\ UNCHANGED << data, store, status >>
       \/ \E code \in {404, 500} : ApiError(r, code)
       \/ \E present \in BodyShapes :
            LET body == Body(present, asOf[r])
            IN  /\ status' = [status EXCEPT ![r] = 200]
                /\ IF RaisesKeyError(body)
                   THEN /\ Answer(r, "500", "KeyError")
                        /\ UNCHANGED << data, store >>
                   ELSE /\ data' = [data EXCEPT ![r] = Extract(body)]
                        /\ pc' = [pc EXCEPT ![r] = "setex"]
                        /\ UNCHANGED << resp, exc, store >>
    /\ asOf' = [asOf EXCEPT ![r] = 0]
    /\ UNCHANGED << now, info, city, country, sent, reads, writes >>
    /\ UNCHANGED << crudVars, tempVars, gameVars, blogVars >>

\* fetch_weather(), lines 103-105: store the dict with the TTL, return it
CacheSetex(r) ==
    /\ pc[r] = "setex"
    /\ writes' = [writes EXCEPT ![r] = @ + 1]
    /\ \E up \in BOOLEAN :
         IF up
         THEN /\ store' = RedisSetex(CacheKey(city[r], country[r]),
                                     cache_time, Dumps(data[r]))
              /\ Answer(r, "weather_info", "none")
              /\ UNCHANGED data
         ELSE /\ Answer(r, "500", "redis.ConnectionError")
              /\ data' = [data EXCEPT ![r] = NoData]
              /\ UNCHANGED store
    /\ UNCHANGED << now, info, city, country, asOf, status, sent, reads >>
    /\ UNCHANGED << crudVars, tempVars, gameVars, blogVars >>

\* the thread is free for the next request
Release(r) ==
    /\ pc[r] = "done"
    /\ pc' = [pc EXCEPT ![r] = "idle"]
    /\ info' = [info EXCEPT ![r] = None]
    /\ city' = [city EXCEPT ![r] = << >>]
    /\ country' = [country EXCEPT ![r] = << >>]
    /\ data' = [data EXCEPT ![r] = NoData]
    /\ asOf' = [asOf EXCEPT ![r] = 0]
    /\ status' = [status EXCEPT ![r] = 0]
    /\ sent' = [sent EXCEPT ![r] = 0]
    /\ reads' = [reads EXCEPT ![r] = 0]
    /\ writes' = [writes EXCEPT ![r] = 0]
    /\ resp' = [resp EXCEPT ![r] = "none"]
    /\ exc' = [exc EXCEPT ![r] = "none"]
    /\ UNCHANGED << now, store >>
    /\ UNCHANGED << crudVars, tempVars, gameVars, blogVars >>

\* a second passes
Tick ==
    /\ now < MaxTime
    /\ now' = now + 1
    /\ UNCHANGED << store, pc, info, city, country, data, asOf, status,
                    sent, reads, writes, resp, exc >>
    /\ UNCHANGED << crudVars, tempVars, gameVars, blogVars >>

Next ==
    \/ \E r \in Reqs : \E i \in LookupInputs : Receive(r, i)
    \/ \E r \in Reqs : CacheGet(r)
    \/ \E r \in Reqs : SendRequest(r)
    \/ \E r \in Reqs : ReceiveResponse(r)
    \/ \E r \in Reqs : CacheSetex(r)
    \/ \E r \in Reqs : Release(r)
    \/ Tick

Spec == Init /\ [][Next]_vars

\* a thread's own steps are taken once they are possible: the Redis commands
\* and the sending of the HTTP request. Nothing makes the provider answer:
\* requests.get is called without a timeout (line 79), so ReceiveResponse
\* happens only if the provider or the network produces an outcome.
ThreadFairness ==
    \A r \in Reqs :
        /\ WF_vars(CacheGet(r))
        /\ WF_vars(SendRequest(r))
        /\ WF_vars(CacheSetex(r))

SpecFair == Init /\ [][Next]_vars /\ ThreadFairness

\* the way of one request to its cache key: a single thread takes every
\* query string of AllInputs through weather()'s validation and split and
\* through the cache read of fetch_weather()
KeyNext ==
    \/ \E i \in AllInputs : Receive(1, i)
    \/ CacheGet(1)
    \/ Release(1)

SpecKey == Init /\ [][KeyNext]_vars

\* ---------------------------------------------------------------------
\* todo tasks and Expense Tracker: one run of the script per action
\* ---------------------------------------------------------------------

\* bounds: an add is run only while the ID it assigns is at most MaxId, and
\* the clock stops at MaxClock
MaxId    == 2
MaxClock == 1

Apps         == {"todo", "expense"}
Names        == {"a", "b"}
Descriptions == {"tea"}
Amounts      == {1, 2}
TaskIdArgs   == 0 .. MaxId
ExpenseIdArgs == 1 .. MaxId

\* the keys of a task and of an expense, in the order the dict literal
\* inserts them, which is the order json.dump writes them
TaskKeys    == << "id", "name", "status", "created_on", "updated_on" >>
ExpenseKeys == << "id", "date", "description", "amount" >>

JsonFile(text) == [kind |-> "json", text |-> text]
StartFiles == {Missing, Corrupt, JsonFile(<< >>)}

\* json.dump of a list of dicts: per item its members, key by key
DumpObject(obj, order) ==
    [i \in 1 .. Len(order) |-> [key |-> order[i], val |-> obj[order[i]]]]

DumpList(list, order) ==
    [i \in 1 .. Len(list) |-> DumpObject(list[i], order)]

\* json.load: a dict per item, built member by member, so that a later
\* member of the same key wins
RECURSIVE LoadMembers(_, _)
LoadMembers(text, n) ==
    IF n = 0 THEN << >>
    ELSE (text[n].key :> text[n].val) @@ LoadMembers(text, n - 1)

LoadObject(text) == LoadMembers(text, Len(text))

LoadList(text) == [i \in 1 .. Len(text) |-> LoadObject(text[i])]

\* load_tasks / load_json: the list of the file; a missing or unparseable
\* file gives [] and is rewritten as []
LoadFile(file) ==
    IF file.kind = "json" THEN LoadList(file.text) ELSE << >>

FileAfterLoad(file) ==
    IF file.kind = "json" THEN file ELSE JsonFile(<< >>)

MaxOf(S) == CHOOSE m \in S : \A n \in S : n <= m

IdsOf(list) == {list[i].id : i \in 1 .. Len(list)}

TaskGetIdCount(list) == Len(list) + 1

\* Tasklist.get_id
TaskGetId(list) ==
    IF list = << >> THEN 1 ELSE MaxOf(IdsOf(list)) + 1

\* ExpenseTracker.get_id
ExpenseGetId(list) ==
    IF list = << >> THEN 1 ELSE MaxOf(IdsOf(list)) + 1

\* the for loop of delete/update/mark: the first item with the id
HasId(list, id) == \E i \in 1 .. Len(list) : list[i].id = id

FirstWithId(list, id) ==
    CHOOSE i \in 1 .. Len(list) :
        /\ list[i].id = id
        /\ \A j \in 1 .. (i - 1) : list[j].id # id

\* list.remove of the item at position i
RemoveAt(list, i) ==
    SubSeq(list, 1, i - 1) \o SubSeq(list, i + 1, Len(list))

\* python app.py add <name>
TodoAdd(name) ==
    /\ app = "todo"
    /\ \E loaded \in {LoadFile(taskFile)} :
         LET new_id == TaskGetId(loaded)
             new_task == [id |-> new_id, name |-> name, status |-> "to-do",
                          created_on |-> clock, updated_on |-> clock]
         IN  /\ new_id <= MaxId
             /\ task' = Append(loaded, new_task)
             /\ taskFile' = JsonFile(DumpList(task', TaskKeys))
             /\ highestId' = IF new_id > highestId THEN new_id ELSE highestId
    /\ notFound' = FALSE
    /\ UNCHANGED << app, clock, expense, expenseFile >>
    /\ UNCHANGED << weatherVars, tempVars, gameVars, blogVars >>

TodoNotFoundCleared(loaded) ==
    /\ task' = << >>
    /\ taskFile' = JsonFile(<< >>)

\* a command that found no task with the id: the list stays as loaded, the
\* file as the load left it
TodoNotFound(loaded) ==
    /\ task' = loaded
    /\ taskFile' = FileAfterLoad(taskFile)

\* python app.py delete <id>
TodoDelete(task_id) ==
    /\ app = "todo"
    /\ \E loaded \in {LoadFile(taskFile)} :
         /\ IF HasId(loaded, task_id)
            THEN /\ task' = RemoveAt(loaded, FirstWithId(loaded, task_id))
                 /\ taskFile' = JsonFile(DumpList(task', TaskKeys))
            ELSE TodoNotFound(loaded)
         /\ notFound' = ~HasId(loaded, task_id)
    /\ UNCHANGED << app, clock, expense, expenseFile, highestId >>
    /\ UNCHANGED << weatherVars, tempVars, gameVars, blogVars >>

\* python app.py update <id> <name>
TodoUpdate(task_id, task_name) ==
    /\ app = "todo"
    /\ \E loaded \in {LoadFile(taskFile)} :
         /\ IF HasId(loaded, task_id)
            THEN /\ task' = [loaded EXCEPT ![FirstWithId(loaded, task_id)] =
                                [@ EXCEPT !.name = task_name,
                                          !.updated_on = clock]]
                 /\ taskFile' = JsonFile(DumpList(task', TaskKeys))
            ELSE TodoNotFound(loaded)
         /\ notFound' = ~HasId(loaded, task_id)
    /\ UNCHANGED << app, clock, expense, expenseFile, highestId >>
    /\ UNCHANGED << weatherVars, tempVars, gameVars, blogVars >>

TodoMarkAll(task_id, stat) ==
    /\ app = "todo"
    /\ \E loaded \in {LoadFile(taskFile)} :
         /\ IF HasId(loaded, task_id)
            THEN /\ task' = [i \in 1 .. Len(loaded) |->
                                [loaded[i] EXCEPT !.status = stat,
                                                  !.updated_on = clock]]
                 /\ taskFile' = JsonFile(DumpList(task', TaskKeys))
            ELSE TodoNotFound(loaded)
         /\ notFound' = ~HasId(loaded, task_id)
    /\ UNCHANGED << app, clock, expense, expenseFile, highestId >>
    /\ UNCHANGED << weatherVars, tempVars, gameVars, blogVars >>

\* mark_in_progress and mark_done differ in the status they set
TodoMark(task_id, stat) ==
    /\ app = "todo"
    /\ \E loaded \in {LoadFile(taskFile)} :
         /\ IF HasId(loaded, task_id)
            THEN /\ task' = [loaded EXCEPT ![FirstWithId(loaded, task_id)] =
                                [@ EXCEPT !.status = stat,
                                          !.updated_on = clock]]
                 /\ taskFile' = JsonFile(DumpList(task', TaskKeys))
            ELSE TodoNotFound(loaded)
         /\ notFound' = ~HasId(loaded, task_id)
    /\ UNCHANGED << app, clock, expense, expenseFile, highestId >>
    /\ UNCHANGED << weatherVars, tempVars, gameVars, blogVars >>

\* python app.py mark-in-progress <id>
TodoMarkInProgress(task_id) == TodoMark(task_id, "in-progress")

\* python app.py mark-done <id>
TodoMarkDone(task_id) == TodoMark(task_id, "done")

\* python app.py list [status]: prints, after the load
TodoList ==
    /\ app = "todo"
    /\ task' = LoadFile(taskFile)
    /\ taskFile' = FileAfterLoad(taskFile)
    /\ notFound' = FALSE
    /\ UNCHANGED << app, clock, expense, expenseFile, highestId >>
    /\ UNCHANGED << weatherVars, tempVars, gameVars, blogVars >>

\* python app.py add --description d --amount a
ExpenseAdd(description, amount) ==
    /\ app = "expense"
    /\ \E loaded \in {LoadFile(expenseFile)} :
         LET exp == [id |-> ExpenseGetId(loaded), date |-> clock,
                     description |-> description, amount |-> amount]
         IN  /\ exp.id <= MaxId
             /\ expense' = Append(loaded, exp)
             /\ expenseFile' = JsonFile(DumpList(expense', ExpenseKeys))
             /\ highestId' = IF exp.id > highestId THEN exp.id ELSE highestId
    /\ notFound' = FALSE
    /\ UNCHANGED << app, clock, task, taskFile >>
    /\ UNCHANGED << weatherVars, tempVars, gameVars, blogVars >>

\* python app.py delete --id n
ExpenseDelete(id) ==
    /\ app = "expense"
    /\ \E loaded \in {LoadFile(expenseFile)} :
         /\ IF HasId(loaded, id)
            THEN /\ expense' = RemoveAt(loaded, FirstWithId(loaded, id))
                 /\ expenseFile' = JsonFile(DumpList(expense', ExpenseKeys))
            ELSE /\ expense' = loaded
                 /\ expenseFile' = FileAfterLoad(expenseFile)
         /\ notFound' = ~HasId(loaded, id)
    /\ UNCHANGED << app, clock, task, taskFile, highestId >>
    /\ UNCHANGED << weatherVars, tempVars, gameVars, blogVars >>

\* python app.py list, python app.py summary: print, after the load
ExpenseList ==
    /\ app = "expense"
    /\ expense' = LoadFile(expenseFile)
    /\ expenseFile' = FileAfterLoad(expenseFile)
    /\ UNCHANGED << app, clock, task, taskFile, highestId >>
    /\ notFound' = FALSE
    /\ UNCHANGED << weatherVars, tempVars, gameVars, blogVars >>

\* time passes between two runs
ClockTick ==
    /\ app \in Apps
    /\ clock < MaxClock
    /\ clock' = clock + 1
    /\ UNCHANGED << app, task, taskFile, expense, expenseFile, highestId,
                    notFound >>
    /\ UNCHANGED << weatherVars, tempVars, gameVars, blogVars >>

\* the directory is used with one of the two scripts; its JSON file is
\* absent, unreadable or holds the empty list
CrudInit ==
    /\ WeatherIdle
    /\ TempIdle
    /\ GameIdle
    /\ BlogIdle
    /\ app \in Apps
    /\ clock = 0
    /\ task = << >>
    /\ expense = << >>
    /\ highestId = 0
    /\ notFound = FALSE
    /\ taskFile \in (IF app = "todo" THEN StartFiles ELSE {Missing})
    /\ expenseFile \in (IF app = "expense" THEN StartFiles ELSE {Missing})

CrudNext ==
    \/ \E name \in Names : TodoAdd(name)
    \/ \E id \in TaskIdArgs : TodoDelete(id)
    \/ \E id \in TaskIdArgs : \E name \in Names : TodoUpdate(id, name)
    \/ \E id \in TaskIdArgs : TodoMarkInProgress(id)
    \/ \E id \in TaskIdArgs : TodoMarkDone(id)
    \/ TodoList
    \/ \E d \in Descriptions : \E a \in Amounts : ExpenseAdd(d, a)
    \/ \E id \in ExpenseIdArgs : ExpenseDelete(id)
    \/ ExpenseList
    \/ ClockTick

SpecCrud == CrudInit /\ [][CrudNext]_vars

\* ---------------------------------------------------------------------
\* Unit Converter: POST /convert_temp
\* ---------------------------------------------------------------------

\* the form fields tried: unit strings in and out of c, f, k, in upper case,
\* padded, unknown and empty; temperatures empty, blank, not a number, and
\* numbers
Units       == {<<"c">>, <<"C">>, <<"f">>, <<" ", "f">>, <<"k">>, <<"x">>,
                << >>}
TempStrings == {<< >>, <<" ">>, <<"x">>, <<"0">>, <<"1", "0", "0">>,
                <<"-", "4", "0">>}

Digits == {"0", "1", "2", "3", "4", "5", "6", "7", "8", "9"}

DigitVal(c) ==
    CASE c = "0" -> 0 [] c = "1" -> 1 [] c = "2" -> 2 [] c = "3" -> 3
      [] c = "4" -> 4 [] c = "5" -> 5 [] c = "6" -> 6 [] c = "7" -> 7
      [] c = "8" -> 8 [] c = "9" -> 9

RECURSIVE NatOf(_)
NatOf(s) ==
    IF s = << >> THEN 0
    ELSE 10 * NatOf(SubSeq(s, 1, Len(s) - 1)) + DigitVal(s[Len(s)])

AllDigits(s) == s # << >> /\ \A i \in 1 .. Len(s) : s[i] \in Digits

\* float(temp_str) for the decimal integers of TempStrings: does it parse,
\* and to what
IsFloat(s) ==
    \/ AllDigits(s)
    \/ s # << >> /\ s[1] = "-" /\ AllDigits(Tail(s))

FloatOf(s) == IF s[1] = "-" THEN 0 - NatOf(Tail(s)) ELSE NatOf(s)

\* str.lower on the letters of Units
UnitLowerChar(c) ==
    CASE c = "C" -> "c" [] c = "F" -> "f" [] c = "K" -> "k" [] OTHER -> c

UnitLower(s) == [i \in 1 .. Len(s) |-> UnitLowerChar(s[i])]

\* temperatures are exact rationals, held as multiples of 1/Scale: 5/9 of
\* an integer number of degrees and 273.15 are whole multiples of it
Scale  == 900
Kelvin == 245835

Returned(x) == [called |-> TRUE, raised |-> FALSE, result |-> x]
Raised      == [called |-> TRUE, raised |-> TRUE, result |-> 0]

\* convert_temp(value, unit_from, unit_to)
ConvertTemp(value, unit_from, unit_to) ==
    LET uf == Strip(UnitLower(unit_from))
        ut == Strip(UnitLower(unit_to))
        c  == CASE uf = <<"c">> -> Scale * value
                [] uf = <<"f">> -> (value - 32) * 500
                [] uf = <<"k">> -> Scale * value - Kelvin
    IN  IF uf = ut THEN Returned(Scale * value)
        ELSE IF uf \notin {<<"c">>, <<"f">>, <<"k">>} THEN Raised
        ELSE IF ut = <<"c">> THEN Returned(c)
        ELSE IF ut = <<"f">> THEN Returned((c * 9) \div 5 + 32 * Scale)
        ELSE IF ut = <<"k">> THEN Returned(c + Kelvin)
        ELSE Raised

\* do_temp(): the handler of one submitted form
DoTemp ==
    /\ tempPage = NoPage
    /\ LET temp_str == Strip(tempForm.temp)
           unit_from == Strip(tempForm.unit_from)
           unit_to == Strip(tempForm.unit_to)
           call == ConvertTemp(FloatOf(temp_str), unit_from, unit_to)
       IN  IF temp_str = << >>
           THEN /\ tempPage' = [error |-> "Please enter a temperature value.",
                                result |-> 0, show_result |-> FALSE]
                /\ tempCall' = NoCall
           ELSE IF ~IsFloat(temp_str)
           THEN /\ tempPage' = [error |-> "could not convert string to float",
                                result |-> 0, show_result |-> FALSE]
                /\ tempCall' = NoCall
           ELSE /\ tempCall' = call
                /\ tempPage' =
                       IF call.raised
                       THEN [error |-> "Unsupported unit. Try: c, f, k",
                             result |-> 0, show_result |-> FALSE]
                       ELSE [error |-> "", result |-> call.result,
                             show_result |-> TRUE]
    /\ UNCHANGED tempForm
    /\ UNCHANGED << weatherVars, crudVars, gameVars, blogVars >>

\* a form arrives with any of the field values
TempInit ==
    /\ WeatherIdle
    /\ CrudIdle
    /\ GameIdle
    /\ BlogIdle
    /\ tempForm \in [temp : TempStrings, unit_from : Units, unit_to : Units]
    /\ tempCall = NoCall
    /\ tempPage = NoPage

TempNext == DoTemp

SpecTemp == TempInit /\ [][TempNext]_vars

\* ---------------------------------------------------------------------
\* Number Guessing Game: main() and play_round(chances)
\* ---------------------------------------------------------------------

\* bound: the numbers typed for the range are 1 .. MaxNumber
MaxNumber == 3

\* get_difficulty: the chances of easy, medium, hard
EasyChances   == 10
MediumChances == 5
HardChances   == 3

\* the decimal digit of a number below ten
DigitOf(n) == CHOOSE c \in Digits : DigitVal(c) = n

NumberInputs == {<< DigitOf(n) >> : n \in 1 .. MaxNumber}

\* the lines typed at the prompts
DifficultyInputs == {<<"1">>, <<"2">>, <<"3">>, <<"4">>, <<"x">>}
RangeInputs      == NumberInputs \cup {<<"x">>}
GuessInputs      == NumberInputs \cup {<<"q">>, <<"Q">>, <<"x">>, << >>}
AgainInputs      == {<<"y">>, <<"Y">>, <<" ", "y">>, <<"n">>, <<"x">>}

\* int(text) for the lines above: does it parse, and to what
IsInt(s) ==
    \/ AllDigits(s)
    \/ s # << >> /\ s[1] = "-" /\ AllDigits(Tail(s))

IntOf(s) == IF s[1] = "-" THEN 0 - NatOf(Tail(s)) ELSE NatOf(s)

\* str.lower on the letters of GuessInputs and AgainInputs
GameLowerChar(c) ==
    CASE c = "Q" -> "q" [] c = "Y" -> "y" [] OTHER -> c

GameLower(s) == [i \in 1 .. Len(s) |-> GameLowerChar(s[i])]

\* the game is started
GameInit ==
    /\ WeatherIdle
    /\ CrudIdle
    /\ TempIdle
    /\ BlogIdle
    /\ gamePc = "difficulty"
    /\ chances = 0
    /\ computer_num = 0
    /\ number_of_guesses = 0
    /\ human_input = << >>
    /\ attempts = << >>

\* get_difficulty(): one pass of its loop
GetDifficulty(choice) ==
    /\ gamePc = "difficulty"
    /\ IF IsInt(choice) /\ IntOf(choice) \in {1, 2, 3}
       THEN /\ chances' = CASE IntOf(choice) = 1 -> EasyChances
                            [] IntOf(choice) = 2 -> MediumChances
                            [] IntOf(choice) = 3 -> HardChances
            /\ number_of_guesses' = 0
            /\ gamePc' = "range"
       ELSE UNCHANGED << chances, number_of_guesses, gamePc >>
    /\ UNCHANGED << computer_num, human_input, attempts >>
    /\ UNCHANGED << weatherVars, crudVars, tempVars, blogVars >>

\* get_number_range(): one pass of its loop, then random.randint
GetNumberRange(min_input, max_input) ==
    /\ gamePc = "range"
    /\ IF IsInt(min_input) /\ IsInt(max_input)
          /\ IntOf(min_input) < IntOf(max_input)
       THEN /\ computer_num' \in IntOf(min_input) .. IntOf(max_input)
            /\ gamePc' = "guess"
       ELSE UNCHANGED << computer_num, gamePc >>
    /\ UNCHANGED << chances, number_of_guesses, human_input, attempts >>
    /\ UNCHANGED << weatherVars, crudVars, tempVars, blogVars >>

NextCountAlways(n, input) == n + 1

\* lines 87-94: the counter after a line that is not 'q'
NextCount(n, input) == IF IsInt(input) THEN n + 1 ELSE n

\* play_round(): one pass of the while loop, and the loop's exit
Guess(input) ==
    /\ gamePc = "guess"
    /\ number_of_guesses < chances
    /\ human_input' = input
    /\ IF GameLower(input) = <<"q">>
       THEN /\ attempts' = << >>
            /\ gamePc' = "returned"
            /\ UNCHANGED number_of_guesses
       ELSE /\ number_of_guesses' = NextCount(number_of_guesses, input)
            /\ IF IsInt(input) /\ IntOf(input) = computer_num
               THEN /\ attempts' = << number_of_guesses' >>
                    /\ gamePc' = "returned"
               ELSE IF number_of_guesses' < chances
               THEN UNCHANGED << attempts, gamePc >>
               ELSE /\ attempts' = << >>
                    /\ gamePc' = "returned"
    /\ UNCHANGED << chances, computer_num >>
    /\ UNCHANGED << weatherVars, crudVars, tempVars, blogVars >>

\* main(): the play-again prompt
PlayAgain(choice) ==
    /\ gamePc = "returned"
    /\ IF GameLower(Strip(choice)) = <<"y">>
       THEN /\ gamePc' = "difficulty"
            /\ chances' = 0
            /\ computer_num' = 0
            /\ number_of_guesses' = 0
            /\ human_input' = << >>
            /\ attempts' = << >>
       ELSE /\ gamePc' = "exited"
            /\ UNCHANGED << chances, computer_num, number_of_guesses,
                            human_input, attempts >>
    /\ UNCHANGED << weatherVars, crudVars, tempVars, blogVars >>

GameNext ==
    \/ \E choice \in DifficultyInputs : GetDifficulty(choice)
    \/ \E lo, hi \in RangeInputs : GetNumberRange(lo, hi)
    \/ \E input \in GuessInputs : Guess(input)
    \/ \E choice \in AgainInputs : PlayAgain(choice)

SpecGame == GameInit /\ [][GameNext]_vars

\* ---------------------------------------------------------------------
\* Personal Blog: /admin, /edit/<slug>, /new, /delete/<slug>
\* ---------------------------------------------------------------------

\* bound: /new is posted only while the number it assigns is at most
\* MaxArticle
MaxArticle == 1

ADMIN_USERNAME == "admin"
ADMIN_PASSWORD == "secret"

\* the Authorization header of a request: absent, wrong user, wrong
\* password, right
AuthInputs == {<< >>, <<"root", "secret">>, <<"admin", "x">>,
               <<"admin", "secret">>}

Methods == {"GET", "POST"}
Titles  == {"a", "b"}

\* decimal digits of a number: str(next_number)
RECURSIVE DigitsOfNat(_)
DigitsOfNat(n) ==
    IF n < 10 THEN << DigitOf(n) >>
    ELSE DigitsOfNat(n \div 10) \o << DigitOf(n % 10) >>

\* a file stem is a sequence of pieces: a word, then digits one by one
ArticleStem(n) == <<"article">> \o DigitsOfNat(n)

\* the slugs of the URLs tried: the articles /new can have made, and a slug
\* the pattern of load_article and delete rejects
SlugArgs == {ArticleStem(n) : n \in 0 .. MaxArticle} \cup {<<"..">>}

\* re.fullmatch(r"[A-Za-z0-9_\-]+", slug)
SafeSlug(slug) ==
    /\ slug # << >>
    /\ \A i \in 1 .. Len(slug) : slug[i] \in Digits \cup {"article", "about"}

\* re.search(r"(\d+)$", file.stem): the digits the stem ends with
RECURSIVE TrailingDigits(_)
TrailingDigits(stem) ==
    IF stem = << >> \/ stem[Len(stem)] \notin Digits THEN << >>
    ELSE TrailingDigits(SubSeq(stem, 1, Len(stem) - 1))
             \o << stem[Len(stem)] >>

\* calculate_slug() on a directory listing
NextNumber(files) ==
    LET numbers == {NatOf(TrailingDigits(f)) :
                        f \in {g \in files : TrailingDigits(g) # << >>}}
    IN  IF numbers = {} THEN 0 ELSE MaxOf(numbers) + 1

calculate_slug(files) == DigitsOfNat(NextNumber(files))

\* check_auth(username, password)
check_auth(username, password) ==
    username = ADMIN_USERNAME /\ password = ADMIN_PASSWORD

\* requires_auth, line 58: the view is called
Authorized(auth) == auth # << >> /\ check_auth(auth[1], auth[2])

\* Path.write_text and Path.unlink on the directory
WriteFile(dir, stem, content) ==
    [f \in DOMAIN dir \cup {stem} |-> IF f = stem THEN content ELSE dir[f]]

Unlink(dir, stem) == [f \in DOMAIN dir \ {stem} |-> dir[f]]

\* the blog starts with one article, whose file name has no number
BlogInit ==
    /\ WeatherIdle
    /\ CrudIdle
    /\ TempIdle
    /\ GameIdle
    /\ articles = [f \in {<<"about">>} |->
                       [title |-> "a", slug |-> <<"about">>]]
    /\ blogPc = [r \in BlogReqs |-> "idle"]
    /\ blogAuth = [r \in BlogReqs |-> << >>]
    /\ blogSlug = [r \in BlogReqs |-> << >>]
    /\ blogResp = [r \in BlogReqs |-> 0]

\* a request is taken by the lowest idle thread; its Authorization header is
\* what the decorator reads
Accept(r, auth) ==
    /\ blogPc[r] = "idle"
    /\ \A q \in BlogReqs : q < r => blogPc[q] # "idle"
    /\ blogAuth' = [blogAuth EXCEPT ![r] = auth]

\* the response is sent
Respond(r, code) ==
    /\ blogPc' = [blogPc EXCEPT ![r] = "done"]
    /\ blogResp' = [blogResp EXCEPT ![r] = code]

DecoratedOpen(r, auth, View) == View

\* requires_auth.decorated: 401 without the view, or the view
Decorated(r, auth, View) ==
    IF Authorized(auth)
    THEN View
    ELSE /\ Respond(r, 401)
         /\ UNCHANGED << articles, blogSlug >>

\* GET /admin
Admin(r, auth) ==
    /\ Accept(r, auth)
    /\ Decorated(r, auth,
           /\ Respond(r, 200)
           /\ UNCHANGED << articles, blogSlug >>)
    /\ UNCHANGED << weatherVars, crudVars, tempVars, gameVars >>

\* /new up to the computed slug: GET renders the form, POST reads the
\* directory
New(r, auth, method) ==
    /\ Accept(r, auth)
    /\ Decorated(r, auth,
           IF method = "POST"
           THEN /\ NextNumber(DOMAIN articles) <= MaxArticle
                /\ blogSlug' = [blogSlug EXCEPT ![r] =
                       <<"article">> \o calculate_slug(DOMAIN articles)]
                /\ blogPc' = [blogPc EXCEPT ![r] = "newWrite"]
                /\ UNCHANGED << articles, blogResp >>
           ELSE /\ Respond(r, 200)
                /\ UNCHANGED << articles, blogSlug >>)
    /\ UNCHANGED << weatherVars, crudVars, tempVars, gameVars >>

\* /new, lines 234-249: the file is written, with the title of the form
NewWrite(r, title) ==
    /\ blogPc[r] = "newWrite"
    /\ articles' = WriteFile(articles, blogSlug[r],
                       [title |-> title, slug |-> blogSlug[r]])
    /\ Respond(r, 302)
    /\ blogSlug' = [blogSlug EXCEPT ![r] = << >>]
    /\ UNCHANGED blogAuth
    /\ UNCHANGED << weatherVars, crudVars, tempVars, gameVars >>

\* /edit/<slug> up to the loaded article
Edit(r, auth, method, slug) ==
    /\ Accept(r, auth)
    /\ Decorated(r, auth,
           IF ~SafeSlug(slug) \/ slug \notin DOMAIN articles
           THEN /\ Respond(r, 404)
                /\ UNCHANGED << articles, blogSlug >>
           ELSE IF method = "POST"
           THEN /\ blogSlug' = [blogSlug EXCEPT ![r] = slug]
                /\ blogPc' = [blogPc EXCEPT ![r] = "editWrite"]
                /\ UNCHANGED << articles, blogResp >>
           ELSE /\ Respond(r, 200)
                /\ UNCHANGED << articles, blogSlug >>)
    /\ UNCHANGED << weatherVars, crudVars, tempVars, gameVars >>

\* /edit/<slug>, lines 188-199: the file is written, with the title of the
\* form
EditWrite(r, title) ==
    /\ blogPc[r] = "editWrite"
    /\ articles' = WriteFile(articles, blogSlug[r],
                       [title |-> title, slug |-> blogSlug[r]])
    /\ Respond(r, 302)
    /\ blogSlug' = [blogSlug EXCEPT ![r] = << >>]
    /\ UNCHANGED blogAuth
    /\ UNCHANGED << weatherVars, crudVars, tempVars, gameVars >>

\* /delete/<slug> up to file.exists()
Delete(r, auth, slug) ==
    /\ Accept(r, auth)
    /\ Decorated(r, auth,
           IF ~SafeSlug(slug)
           THEN /\ Respond(r, 400)
                /\ UNCHANGED << articles, blogSlug >>
           ELSE IF slug \in DOMAIN articles
           THEN /\ blogSlug' = [blogSlug EXCEPT ![r] = slug]
                /\ blogPc' = [blogPc EXCEPT ![r] = "deleteUnlink"]
                /\ UNCHANGED << articles, blogResp >>
           ELSE /\ Respond(r, 302)
                /\ UNCHANGED << articles, blogSlug >>)
    /\ UNCHANGED << weatherVars, crudVars, tempVars, gameVars >>

\* /delete/<slug>, line 263: file.unlink(), FileNotFoundError if the file
\* has gone since
DeleteUnlink(r) ==
    /\ blogPc[r] = "deleteUnlink"
    /\ IF blogSlug[r] \in DOMAIN articles
       THEN /\ articles' = Unlink(articles, blogSlug[r])
            /\ Respond(r, 302)
       ELSE /\ Respond(r, 500)
            /\ UNCHANGED articles
    /\ blogSlug' = [blogSlug EXCEPT ![r] = << >>]
    /\ UNCHANGED blogAuth
    /\ UNCHANGED << weatherVars, crudVars, tempVars, gameVars >>

\* the thread is free for the next request
BlogRelease(r) ==
    /\ blogPc[r] = "done"
    /\ blogPc' = [blogPc EXCEPT ![r] = "idle"]
    /\ blogAuth' = [blogAuth EXCEPT ![r] = << >>]
    /\ blogSlug' = [blogSlug EXCEPT ![r] = << >>]
    /\ blogResp' = [blogResp EXCEPT ![r] = 0]
    /\ UNCHANGED articles
    /\ UNCHANGED << weatherVars, crudVars, tempVars, gameVars >>

BlogNext ==
    \/ \E r \in BlogReqs : \E auth \in AuthInputs : Admin(r, auth)
    \/ \E r \in BlogReqs : \E auth \in AuthInputs : \E method \in Methods :
           New(r, auth, method)
    \/ \E r \in BlogReqs : \E title \in Titles : NewWrite(r, title)
    \/ \E r \in BlogReqs : \E auth \in AuthInputs : \E method \in Methods :
           \E slug \in SlugArgs : Edit(r, auth, method, slug)
    \/ \E r \in BlogReqs : \E title \in Titles : EditWrite(r, title)
    \/ \E r \in BlogReqs : \E auth \in AuthInputs : \E slug \in SlugArgs :
           Delete(r, auth, slug)
    \/ \E r \in BlogReqs : DeleteUnlink(r)
    \/ \E r \in BlogReqs : BlogRelease(r)

SpecBlog == BlogInit /\ [][BlogNext]_vars

\* ------------------------------------------------------------------ claims
\* the cache key of the lookup thread r is running
KeyOf(r) == CacheKey(city[r], country[r])

\* the entry under k was stored less than cache_time seconds ago
Fresh(k) == k \in DOMAIN store /\ now < store[k].storedAt + cache_time

\* C1: a lookup whose cache read happens while the key's entry is within its
\* TTL finishes at that read: it issues no upstream request and the
\* provider's call count does not increase.
C1_HitShortCircuit ==
    [][\A r \in Reqs :
         (pc[r] = "get" /\ pc'[r] # "get" /\ Fresh(KeyOf(r)))
            => /\ pc'[r] = "done"
               /\ sent' = sent
               /\ sent[r] = 0]_vars

\* a second lookup of a populated key was answered from the cache
C1_Witness ==
    \E r \in Reqs :
        /\ pc[r] = "done" /\ resp[r] = "weather_info"
        /\ reads[r] = 1 /\ sent[r] = 0
        /\ Fresh(KeyOf(r))
        /\ data[r] = Loads(store[KeyOf(r)].value)

\* C2: an entry is returned by a lookup only while now < storedAt + ttl, with
\* ttl the configured cache_time; a lookup that reads the key at or after
\* storedAt + ttl does what a lookup of a never-stored key does: it goes on
\* to the upstream fetch (or fails on the Redis error) and holds no cached data.
C2_TtlExpiry ==
    [][\A r \in Reqs :
         (pc[r] = "get" /\ pc'[r] # "get")
            => /\ (KeyOf(r) \in DOMAIN store => store[KeyOf(r)].ttl = cache_time)
               /\ (resp'[r] = "weather_info") => Fresh(KeyOf(r))
               /\ ~Fresh(KeyOf(r))
                    => /\ data'[r] = NoData
                       /\ \/ pc'[r] = "fetch"
                          \/ exc'[r] = "redis.ConnectionError"]_vars

\* a lookup read a key whose entry is resident but expired, and went to fetch
C2_Witness ==
    \E r \in Reqs :
        /\ pc[r] = "wait"
        /\ KeyOf(r) \in DOMAIN store
        /\ now >= store[KeyOf(r)].storedAt + cache_time

\* C3: a lookup that the provider answers with a non-200 status writes
\* nothing to the cache: the step leaves the store as it was.
C3_NoNegativeCaching ==
    [][\A r \in Reqs :
         (pc[r] = "wait" /\ resp'[r] = "Could not fetch weather")
            => /\ store' = store
               /\ writes'[r] = 0]_vars

\* after a rejected lookup the same key is fetched from the provider again
C3_Witness ==
    \E r1, r2 \in Reqs :
        /\ pc[r1] = "done" /\ resp[r1] = "Could not fetch weather"
        /\ KeyOf(r2) = KeyOf(r1) /\ KeyOf(r1) \notin DOMAIN store
        /\ pc[r2] = "wait" /\ sent[r2] = 1

\* C4: a Redis error on the cache read is treated as a miss, so no lookup
\* ends with a Redis exception raised before any upstream request.
C4_FailOpenOnGet ==
    \A r \in Reqs :
        ~ (pc[r] = "done" /\ sent[r] = 0 /\ exc[r] = "redis.ConnectionError")

\* C5: a lookup that fetched successfully and then attempted the cache write
\* answers with the fetched record, whether or not the write succeeded.
C5_SetFailureSwallowed ==
    \A r \in Reqs :
        (pc[r] = "done" /\ writes[r] = 1)
            => resp[r] = "weather_info" /\ exc[r] = "none"

\* C6: at most one upstream fetch per key is in flight at any time, and two
\* lookups of one key that hold fetched data at the same time hold the same record.
C6_StampedeDedup ==
    \A r1, r2 \in Reqs :
        (r1 # r2 /\ KeyOf(r1) = KeyOf(r2))
            => /\ ~ (pc[r1] = "wait" /\ pc[r2] = "wait")
               /\ (pc[r1] = "setex" /\ pc[r2] = "setex") => data[r1] = data[r2]

\* C7: when two lookups of one key both fetched and both wrote, the entry
\* left in the cache is never the one of the fetch that started earlier
\* (the record's readings tell when its fetch was sent).
C7_WriteOrdering ==
    \A r1, r2 \in Reqs :
        ( /\ pc[r1] = "done" /\ pc[r2] = "done"
          /\ writes[r1] = 1 /\ writes[r2] = 1
          /\ resp[r1] = "weather_info" /\ resp[r2] = "weather_info"
          /\ KeyOf(r1) = KeyOf(r2)
          /\ data[r1]["temperature"].val < data[r2]["temperature"].val
          /\ KeyOf(r1) \in DOMAIN store )
            => store[KeyOf(r1)].value # Dumps(data[r1])

\* ---- the words of the key-derivation claims, said without Strip and Lower
HasComma(s) == \E i \in 1..Len(s) : s[i] = ","

FirstComma(s) == CHOOSE i \in 1..Len(s) : s[i] = "," /\ \A j \in 1..Len(s) : s[j] = "," => i <= j

CityPart(s) == SubSeq(s, 1, FirstComma(s) - 1)

CountryPart(s) == SubSeq(s, FirstComma(s) + 1, Len(s))

\* x without its leading and trailing blanks
Core(x) ==
    LET ink == {i \in 1..Len(x) : x[i] # " "}
    IN  IF ink = {} THEN << >>
        ELSE SubSeq(x, CHOOSE i \in ink : \A j \in ink : i <= j,
                       CHOOSE i \in ink : \A j \in ink : i >= j)

\* x and y differ at most in letter case and in blanks at their ends
SameText(x, y) ==
    /\ Len(Core(x)) = Len(Core(y))
    /\ \A i \in 1..Len(Core(x)) :
          \/ Core(x)[i] = Core(y)[i]
          \/ {Core(x)[i], Core(y)[i]} = {"a", "A"}

\* two City,Country inputs that are case/whitespace variants of each other
SameLookup(s, t) ==
    /\ HasComma(s) /\ HasComma(t)
    /\ SameText(CityPart(s), CityPart(t))
    /\ SameText(CountryPart(s), CountryPart(t))

\* C8: every input that differs from an accepted input only in letter case
\* or in leading/trailing whitespace of its city and country parts is
\* accepted too and gets the identical cache key.
C8_KeyNormalizing ==
    \A r \in Reqs :
        pc[r] = "get"
            => \A j \in AllInputs :
                 SameLookup(info[r], j)
                    => /\ Len(Parts(j)) = 2
                       /\ CacheKey(Parts(j)[1], Parts(j)[2]) = KeyOf(r)

\* an accepted input with blanks and a capital that normalisation removed
C8_Witness ==
    \E r \in Reqs :
        /\ pc[r] = "get"
        /\ info[r] = <<" ", "A", ",", "a">>
        /\ KeyOf(r) = <<"weather:", "a", ",", "a">>
        /\ \E j \in AllInputs : j # info[r] /\ SameLookup(info[r], j)

\* the input is missing, empty, or not City,Country with both parts non-empty
Malformed(i) ==
    \/ i = None
    \/ i = << >>
    \/ ~HasComma(i)
    \/ CityPart(i) = << >>
    \/ CountryPart(i) = << >>

\* C9: a request with malformed input performs no cache read, no cache write
\* and no upstream request, and is answered with a validation error.
C9_ValidationBeforeIO ==
    \A r \in Reqs :
        (pc[r] # "idle" /\ Malformed(info[r]))
            => /\ reads[r] = 0 /\ writes[r] = 0 /\ sent[r] = 0
               /\ pc[r] = "done" => resp[r] \in {"Invalid input", "Invalid format"}

\* C10: every value resident in the cache decodes to a record that has all
\* eight required fields.
C10_NoPartialEntries ==
    \A k \in DOMAIN store : DOMAIN Loads(store[k].value) = Fields

\* an entry written from a body without 'name' is live while another lookup
\* has died on a body without a nested field
C10_Witness ==
    \E k \in DOMAIN store :
        /\ now < store[k].storedAt + cache_time
        /\ Loads(store[k].value)["name"] = Null
        /\ \E r \in Reqs : pc[r] = "done" /\ exc[r] = "KeyError"

\* C11: a 200 response that lacks a nested field does not crash the lookup:
\* no lookup ends with a KeyError raised while the record is extracted.
C11_DefensiveNormalization ==
    \A r \in Reqs : ~ (pc[r] = "done" /\ exc[r] = "KeyError")

\* C12: a lookup rejected as an invalid or unknown location (4xx) and a lookup
\* that met a temporary service failure (5xx, or no response at all) are
\* never answered with the same response.
C12_FailureClassesDistinct ==
    \A r1, r2 \in Reqs :
        ( /\ pc[r1] = "done" /\ pc[r2] = "done"
          /\ status[r1] = 404
          /\ \/ status[r2] = 500
             \/ exc[r2] = "requests.ConnectionError" )
            => resp[r1] # resp[r2]

\* C13: a lookup issues at most two upstream requests, and a lookup that the
\* provider rejects with a 4xx status ends after exactly one.
C13_BoundedRetry ==
    \A r \in Reqs :
        /\ sent[r] <= 2
        /\ (pc[r] = "done" /\ status[r] = 404) => sent[r] = 1

\* a lookup rejected with 404 has been answered after its single request
C13_Witness ==
    \E r \in Reqs :
        /\ pc[r] = "done" /\ status[r] = 404
        /\ sent[r] = 1 /\ resp[r] = "Could not fetch weather"

\* C14: every lookup terminates: a lookup that is waiting for the upstream
\* response is eventually answered, even when the upstream never responds.
C14_LookupTerminates ==
    \A r \in Reqs : (pc[r] = "wait") ~> (pc[r] = "done")

\* the steps a lookup may take, as pairs of positions
ProtocolOrder ==
    { <<"idle", "get">>, <<"idle", "done">>,
      <<"get", "done">>, <<"get", "fetch">>,
      <<"fetch", "wait">>,
      <<"wait", "setex">>, <<"wait", "done">>,
      <<"setex", "done">>,
      <<"done", "idle">> }

\* C15: a lookup moves only along CHECK_CACHE, then on a miss FETCH_UPSTREAM,
\* then on a 200 POPULATE_CACHE, then return; and the cache changes only in
\* the populate step of a lookup that read the cache once, missed, sent its
\* request and got a 200, and only under that lookup's key.
C15_ProtocolOrder ==
    [][/\ \A r \in Reqs :
            /\ pc'[r] # pc[r] => <<pc[r], pc'[r]>> \in ProtocolOrder
            /\ (pc[r] = "get" /\ pc'[r] = "done")
                  => resp'[r] = "weather_info" \/ exc'[r] # "none"
            /\ (pc[r] = "wait" /\ pc'[r] = "setex") => status'[r] = 200
            /\ (pc[r] = "wait" /\ pc'[r] = "done") => resp'[r] # "weather_info"
       /\ store' # store
            => \E r \in Reqs :
                 /\ pc[r] = "setex" /\ pc'[r] = "done"
                 /\ reads[r] = 1 /\ sent[r] = 1 /\ status[r] = 200
                 /\ DOMAIN store' = DOMAIN store \cup {KeyOf(r)}
                 /\ \A k \in DOMAIN store : k # KeyOf(r) => store'[k] = store[k]]_vars

\* a lookup has gone through miss, fetch and populate, and its entry is live
C15_Witness ==
    \E r \in Reqs :
        /\ pc[r] = "done" /\ resp[r] = "weather_info"
        /\ reads[r] = 1 /\ sent[r] = 1 /\ writes[r] = 1 /\ status[r] = 200
        /\ Fresh(KeyOf(r))

\* the stored text has exactly the members of the record, with its values
TextHolds(text, rec) ==
    /\ Len(text) = Cardinality(DOMAIN rec)
    /\ \A f \in DOMAIN rec :
          \E i \in 1..Len(text) : text[i].key = f /\ text[i].val = rec[f]

C17_EntriesImmutable ==
    [][/\ \A r \in Reqs : (pc[r] = "get" /\ pc'[r] # "get") => store' = store
       /\ \A k \in DOMAIN store :
            /\ k \in DOMAIN store'
            /\ store'[k] # store[k]
                 => /\ store'[k].storedAt = now
                    /\ store'[k].ttl = cache_time
                    /\ \E r \in Reqs :
                         /\ pc[r] = "setex" /\ sent[r] = 1 /\ KeyOf(r) = k
                         /\ TextHolds(store'[k].value, data[r])]_vars

\* a hit on an entry stored earlier: the entry still has its old storedAt
C17_Witness ==
    \E r \in Reqs :
        /\ pc[r] = "done" /\ sent[r] = 0 /\ resp[r] = "weather_info"
        /\ Fresh(KeyOf(r))
        /\ store[KeyOf(r)].storedAt < now


\* C18: IDs are monotonic: each ID an add assigns is strictly greater than
\* every ID assigned before it, so no ID is reused after a delete. Every
\* step that appends an item gives it an id above highestId.
C18_IdsMonotonic ==
    [][/\ Len(task') > Len(task) => task'[Len(task')].id > highestId
       /\ Len(expense') > Len(expense)
              => expense'[Len(expense')].id > highestId]_vars

\* C19: convert_temp raises ValueError whenever unit_from or unit_to, after
\* lower-casing and trimming, is not one of c, f, k, for every combination
\* of the two units, the same unsupported unit twice included.
SupportedUnit(u) == Strip(UnitLower(u)) \in {<<"c">>, <<"f">>, <<"k">>}

C19_UnsupportedUnitRaises ==
    tempCall.called /\ ~(SupportedUnit(tempForm.unit_from)
                         /\ SupportedUnit(tempForm.unit_to))
        => tempCall.raised

\* C20: ID uniqueness: starting from an empty task list or expense list,
\* after any sequence of add, delete, update, mark-in-progress and mark-done
\* no two items of the list have the same id, and every id is a positive
\* integer; the same holds of the list the file holds.
UniquePositiveIds(list) ==
    /\ \A i, j \in 1 .. Len(list) : i # j => list[i].id # list[j].id
    /\ \A i \in 1 .. Len(list) : list[i].id \in Nat \ {0}

C20_IdsUniquePositive ==
    /\ UniquePositiveIds(task)
    /\ UniquePositiveIds(expense)
    /\ UniquePositiveIds(LoadFile(taskFile))
    /\ UniquePositiveIds(LoadFile(expenseFile))

\* two tasks are listed, the first marked done after it was created, the
\* second added later and renamed
C20_Witness ==
    /\ Len(task) = 2
    /\ task[1].status = "done"
    /\ task[1].updated_on > task[1].created_on
    /\ task[2].created_on > task[1].created_on
    /\ task[2].name # task[1].name

\* C21: operations on an unknown ID are no-ops: delete_task, update_task,
\* mark_in_progress, mark_done and delete_expense, called with an id that
\* no item has, leave the in-memory list and the persisted file unchanged;
\* and after every successful mutating operation the content of the file
\* equals the in-memory list. The run's constructor has loaded the list
\* from the file before the operation is called, so the operation is
\* called in a state in which the file holds the list: from such a state
\* no operation with an unknown id has a step that changes list or file.
FileHolds(file, list, keys) ==
    /\ file.kind = "json"
    /\ Len(file.text) = Len(list)
    /\ \A i \in 1 .. Len(list) :
           /\ Len(file.text[i]) = Len(keys)
           /\ \A n \in 1 .. Len(keys) :
                  /\ file.text[i][n].key = keys[n]
                  /\ file.text[i][n].val = list[i][keys[n]]

TaskOpWithId(id) ==
    \/ TodoDelete(id)
    \/ \E name \in Names : TodoUpdate(id, name)
    \/ TodoMarkInProgress(id)
    \/ TodoMarkDone(id)

TasksChanged == task' # task \/ taskFile' # taskFile

ExpensesChanged == expense' # expense \/ expenseFile' # expenseFile

C21_UnknownIdNoOp ==
    /\ Len(task) > 0 \/ taskFile.kind = "json"
           => FileHolds(taskFile, task, TaskKeys)
    /\ Len(expense) > 0 \/ expenseFile.kind = "json"
           => FileHolds(expenseFile, expense, ExpenseKeys)
    /\ \A id \in TaskIdArgs :
           /\ FileHolds(taskFile, task, TaskKeys)
           /\ \A i \in 1 .. Len(task) : task[i].id # id
           => ~ENABLED (TaskOpWithId(id) /\ TasksChanged)
    /\ \A id \in ExpenseIdArgs :
           /\ FileHolds(expenseFile, expense, ExpenseKeys)
           /\ \A i \in 1 .. Len(expense) : expense[i].id # id
           => ~ENABLED (ExpenseDelete(id) /\ ExpensesChanged)

\* the latest run was given an ID that neither of the two listed tasks has
C21_Witness ==
    /\ notFound
    /\ app = "todo"
    /\ Len(task) = 2
    /\ FileHolds(taskFile, task, TaskKeys)


\* C22: task status invariant: every task created by add_task starts with
\* status 'to-do'; after any sequence of operations every task's status is
\* one of 'to-do', 'in-progress', 'done'; mark_in_progress and mark_done
\* change only the status and updated_on of the task with the given id and
\* leave its id, name, created_on and all other tasks unchanged. No add has
\* a step whose new task is not 'to-do', and no mark has a step that breaks
\* the frame.
MarkFrame(id) ==
    /\ Len(task') = Len(task)
    /\ \A i \in 1 .. Len(task) :
           IF task[i].id = id
           THEN /\ DOMAIN task'[i] = DOMAIN task[i]
                /\ task'[i].id = task[i].id
                /\ task'[i].name = task[i].name
                /\ task'[i].created_on = task[i].created_on
           ELSE task'[i] = task[i]

C22_TaskStatus ==
    /\ \A i \in 1 .. Len(task) :
           task[i].status \in {"to-do", "in-progress", "done"}
    /\ \A name \in Names :
           ~ENABLED (TodoAdd(name) /\ task'[Len(task')].status # "to-do")
    /\ \A id \in TaskIdArgs :
           FileHolds(taskFile, task, TaskKeys)
           => ~ENABLED (/\ TodoMarkInProgress(id) \/ TodoMarkDone(id)
                        /\ ~MarkFrame(id))

\* of two tasks the first has been marked in-progress after its creation and
\* the second done, each keeping its name and its creation time
C22_Witness ==
    /\ Len(task) = 2
    /\ task[1].status = "in-progress"
    /\ task[2].status = "done"
    /\ task[1].name # task[2].name
    /\ task[1].created_on < task[1].updated_on
    /\ task[2].created_on = task[2].updated_on


\* C23: guessing round bound: in play_round(chances) a non-integer input is
\* not counted as an attempt, the number of counted guesses never exceeds
\* chances, the round returns n (1 <= n <= chances) exactly when the n-th
\* counted guess equals the secret number, returns None when the player
\* quits with 'q' or uses all chances without a correct guess, and ends
\* after at most chances counted guesses.
IntegerLine(s) ==
    /\ s # << >>
    /\ \A i \in 1 .. Len(s) : s[i] \in Digits

QuitLine(s) == s \in {<<"q">>, <<"Q">>}

CorrectLine(s) == IntegerLine(s) /\ NatOf(s) = computer_num

C23_RoundBound ==
    [][gamePc = "guess" =>
        /\ number_of_guesses' =
               number_of_guesses + (IF IntegerLine(human_input') THEN 1 ELSE 0)
        /\ number_of_guesses' <= chances
        /\ CorrectLine(human_input')
               <=> /\ gamePc' = "returned"
                   /\ attempts' = << number_of_guesses' >>
                   /\ number_of_guesses' \in 1 .. chances
        /\ (gamePc' = "returned" /\ attempts' = << >>)
               <=> \/ QuitLine(human_input')
                   \/ /\ number_of_guesses' = chances
                      /\ ~CorrectLine(human_input')
        /\ number_of_guesses' = chances => gamePc' = "returned"]_vars

\* a round was won with the last of the chances, after wrong guesses
C23_Witness ==
    /\ gamePc = "returned"
    /\ chances = HardChances
    /\ attempts = << HardChances >>


\* C24: the admin routes are gated by authentication: for /admin,
\* /edit/<slug>, /new and /delete/<slug> the view body, and with it every
\* creation, modification or deletion of an article file, executes only
\* when the request carries the admin username and password; with missing
\* or wrong credentials the response is 401 and the article store is
\* unchanged.
AdminCredentials(auth) == auth = <<"admin", "secret">>

InViewBody(p) == p \in {"newWrite", "editWrite", "deleteUnlink"}

C24_AdminGated ==
    [][/\ \A r \in BlogReqs :
              /\ blogPc[r] = "idle" /\ blogPc'[r] # "idle"
                     => IF AdminCredentials(blogAuth'[r])
                        THEN blogResp'[r] # 401
                        ELSE /\ blogPc'[r] = "done"
                             /\ blogResp'[r] = 401
                             /\ articles' = articles
              /\ InViewBody(blogPc'[r]) => AdminCredentials(blogAuth'[r])
       /\ articles' # articles
              => \E r \in BlogReqs :
                     /\ InViewBody(blogPc[r])
                     /\ blogPc'[r] = "done"
                     /\ AdminCredentials(blogAuth[r])]_vars

\* a request with a wrong password was answered 401 while an article made
\* by /new exists and another request is inside a view body
C24_Witness ==
    /\ <<"article", "0">> \in DOMAIN articles
    /\ \E r, q \in BlogReqs :
           /\ blogPc[r] = "done"
           /\ blogResp[r] = 401
           /\ blogAuth[r] = <<"admin", "x">>
           /\ InViewBody(blogPc[q])

\* C25: creating an article never overwrites an existing one: the slug
\* chosen by new is 'article' followed by one more than the largest
\* trailing number among the existing file names (0 when there is none), so
\* the target file does not exist before the write, for sequential requests
\* and for two concurrent /new requests that both compute the slug before
\* either writes: the write of /new never targets a file that exists.
C25_NewNeverOverwrites ==
    [][\A r \in BlogReqs :
           blogPc[r] = "newWrite" /\ blogPc'[r] = "done"
               => blogSlug[r] \notin DOMAIN articles]_vars


====
